---- MODULE Spec2Model ----
(***************************************************************************)
(* MultiMarkovModel (src/src/lib.rs): a variable-order Markov chain.       *)
(*                                                                         *)
(* The state of a model is the pair (frequencies, known_states); `order`   *)
(* is fixed at DEFAULT_ORDER by new().  The operations are add_sequence,   *)
(* add_sequences, add_priors, best_model and random_next.                  *)
(*                                                                         *)
(* Weights are f64 in the source.  They are modelled as binary floating    *)
(* point numbers with MantissaBits bits of precision and round-to-nearest, *)
(* ties-to-even: a weight is a natural number n that stands for the value  *)
(* n / One, and every arithmetic result goes through Fl.  Sequences are    *)
(* TLA+ sequences (1-based); the operators that mirror the loops keep the  *)
(* 0-based indices of the source and convert at At and Slice.              *)
(***************************************************************************)
EXTENDS Naturals, Integers, Sequences, FiniteSets, Bags, TLC

VARIABLES
    frequencies,    \* HashMap<Vec<T>, HashMap<T, f64>>
    known_states,   \* HashSet<T>
    history,        \* ghost: bag of the sequences handed to add_sequence
    priors,         \* ghost: the set of priors handed to add_priors so far
    last            \* the last call: its name, arguments and return value

vars == <<frequencies, known_states, history, priors, last>>

----------------------------------------------------------------------------
(* Bounds of the exploration *)

MantissaBits == 3       \* precision of the modelled floating point format
MaxCalls == 2           \* add_sequence calls (direct or through a batch)
MaxSymbols == 5         \* total number of symbols handed to training
MaxQueryCalls == 2      \* the same two budgets where best_model is called
MaxQuerySymbols == 4
MaxQueryLen == 3        \* length of a query
MaxSampleCalls == 1     \* the same three where random_next is called
MaxSampleSymbols == 3
MaxSampleQueryLen == 1

Symbols == {"a", "b"}
SampleSymbols == {"a", "b", "c"}

\* The training data of the documentation tests of add_sequences and of
\* best_model.
AddSequencesDoc ==
    << <<"a">>, <<"f", "o", "o", "b", "a", "r">>, <<"b", "a", "z">> >>
BestModelDoc ==
    << <<"a", "c", "e">>, <<"f", "o", "o", "b", "a", "r">>, <<"b", "a", "z">> >>
DocBatches == {AddSequencesDoc, BestModelDoc}

\* Queries over the alphabet of the documentation tests
DocQueries ==
    { <<"o", "o", "b", "a">>, <<"c", "a">>, <<"z">>, <<"r", "f">>, <<"x">> }

----------------------------------------------------------------------------
(* f64 arithmetic *)

RECURSIVE Pow2(_)
Pow2(n) == IF n = 0 THEN 1 ELSE 2 * Pow2(n - 1)

RECURSIVE BitLength(_)
BitLength(n) == IF n = 0 THEN 0 ELSE 1 + BitLength(n \div 2)

\* 1.0.  With 2 * MantissaBits - 1 fractional bits every product r * S of a
\* draw r and a sum S >= 1.0 is a whole number of units before it is rounded.
One == Pow2(2 * MantissaBits - 1)

\* Rounding of an exact result to the nearest representable number, ties to
\* the even mantissa.
Fl(n) ==
    IF n < Pow2(MantissaBits) THEN n
    ELSE LET q == Pow2(BitLength(n) - MantissaBits)
             m == n \div q
             rem == n - m * q
         IN  IF 2 * rem < q THEN m * q
             ELSE IF 2 * rem > q THEN (m + 1) * q
             ELSE IF m % 2 = 0 THEN m * q
             ELSE (m + 1) * q

\* The priors a caller passes: 0.0 and a small positive prior whose low bits
\* do not fit the grid of the numbers near 1.0.
SmallPrior == 3 * Pow2(MantissaBits - 1)
Priors == {0, SmallPrior}

----------------------------------------------------------------------------
(* Values *)

Some(x) == <<x>>
None == <<>>

EmptyMap == [x \in {} |-> 0]

At(sequence, i) == sequence[i + 1]                  \* sequence[i]
Slice(sequence, j, i) == SubSeq(sequence, j + 1, i) \* &sequence[j..i]

Max(a, b) == IF a > b THEN a ELSE b
Min(a, b) == IF a < b THEN a ELSE b

DEFAULT_ORDER == 3
order == DEFAULT_ORDER

SeqsOfLen(S, n) == [1..n -> S]
SeqsUpTo(S, n) == UNION {SeqsOfLen(S, k) : k \in 0..n}

----------------------------------------------------------------------------
(* add_sequence *)

\* Mutant of Observe: the weight is set to 1.0 instead of being incremented
Observe_Overwrite(freq, context, symbol) ==
    LET d == IF context \in DOMAIN freq THEN freq[context] ELSE EmptyMap
        d2 == [x \in DOMAIN d \cup {symbol} |->
                  IF x = symbol THEN One ELSE d[x]]
    IN  [c \in DOMAIN freq \cup {context} |->
            IF c = context THEN d2 ELSE freq[c]]

\* *frequencies.entry(context).or_insert(HashMap::new())
\*             .entry(symbol).or_insert(0.0) += 1.0
Observe(freq, context, symbol) ==
    LET d == IF context \in DOMAIN freq THEN freq[context] ELSE EmptyMap
        w == IF symbol \in DOMAIN d THEN d[symbol] ELSE 0
        d2 == [x \in DOMAIN d \cup {symbol} |->
                  IF x = symbol THEN Fl(w + One) ELSE d[x]]
    IN  [c \in DOMAIN freq \cup {context} |->
            IF c = context THEN d2 ELSE freq[c]]

\* Mutant of FirstContextStart: one symbol too many in the longest context
FirstContextStart_OffByOne(i) == Max(0, i - order - 1)

\* The first j of the inner loop: max(0, i as i32 - self.order) as usize
FirstContextStart(i) == Max(0, i - order)

\* for j in first..i
RECURSIVE ContextLoop(_, _, _, _)
ContextLoop(freq, sequence, i, j) ==
    IF j >= i THEN freq
    ELSE ContextLoop(Observe(freq, Slice(sequence, j, i), At(sequence, i)),
                     sequence, i, j + 1)

\* for i in (1..sequence.len()).rev()
RECURSIVE PositionLoop(_, _, _, _)
PositionLoop(freq, known, sequence, i) ==
    IF i < 1 THEN [frequencies |-> freq, known_states |-> known]
    ELSE PositionLoop(ContextLoop(freq, sequence, i, FirstContextStart(i)),
                      known \cup {At(sequence, i)}, sequence, i - 1)

\* Mutant of TooShort: a sequence of one symbol is let through
TooShort_OffByOne(sequence) == Len(sequence) < 1

TooShort(sequence) == Len(sequence) < 2

add_sequence(freq, known, sequence) ==
    IF TooShort(sequence)
    THEN [ok |-> FALSE, frequencies |-> freq, known_states |-> known]
    ELSE LET r == PositionLoop(freq, known, sequence, Len(sequence) - 1)
         IN  [ok |-> TRUE, frequencies |-> r.frequencies,
              known_states |-> r.known_states \cup {At(sequence, 0)}]

----------------------------------------------------------------------------
(* add_sequences *)

\* Mutant of BatchLoop: the first sequence that is refused ends the batch
RECURSIVE BatchLoop_Abort(_, _, _, _)
BatchLoop_Abort(freq, known, sequences, n) ==
    IF n > Len(sequences) THEN [frequencies |-> freq, known_states |-> known]
    ELSE LET r == add_sequence(freq, known, sequences[n])
         IN  IF r.ok
             THEN BatchLoop_Abort(r.frequencies, r.known_states, sequences, n + 1)
             ELSE [frequencies |-> freq, known_states |-> known]

\* for sequence in sequences { match self.add_sequence(sequence) ... }
RECURSIVE BatchLoop(_, _, _, _)
BatchLoop(freq, known, sequences, n) ==
    IF n > Len(sequences) THEN [frequencies |-> freq, known_states |-> known]
    ELSE LET r == add_sequence(freq, known, sequences[n])
         IN  BatchLoop(r.frequencies, r.known_states, sequences, n + 1)

add_sequences(freq, known, sequences) ==
    IF Len(sequences) < 1
    THEN [ok |-> FALSE, frequencies |-> freq, known_states |-> known]
    ELSE LET r == BatchLoop(freq, known, sequences, 1)
         IN  [ok |-> TRUE, frequencies |-> r.frequencies,
              known_states |-> r.known_states]

----------------------------------------------------------------------------
(* add_priors *)

\* Mutant of FillDistribution: insert(prior) in place of or_insert(prior)
FillDistribution_Overwrite(d, known, prior) ==
    [a \in DOMAIN d \cup known |-> IF a \in known THEN prior ELSE d[a]]

\* Mutant of FillDistribution: or_insert(0.0) in place of or_insert(prior)
FillDistribution_Zero(d, known, prior) ==
    [a \in DOMAIN d \cup known |-> IF a \in DOMAIN d THEN d[a] ELSE 0]

\* v.entry(a).or_insert(prior) for every a of known_states
FillDistribution(d, known, prior) ==
    [a \in DOMAIN d \cup known |-> IF a \in DOMAIN d THEN d[a] ELSE prior]

add_priors(freq, known, prior) ==
    [c \in DOMAIN freq |-> FillDistribution(freq[c], known, prior)]

----------------------------------------------------------------------------
(* best_model *)

\* for i in (1..min(order, len) + 1).rev(): the last i symbols of the query
RECURSIVE SuffixSearch(_, _, _)
SuffixSearch(freq, query, i) ==
    IF i < 1 THEN None
    ELSE LET subsequence == Slice(query, Len(query) - i, Len(query))
         IN  IF subsequence \in DOMAIN freq
             THEN Some(freq[subsequence])
             ELSE SuffixSearch(freq, query, i - 1)

\* Mutant of best_model: the search runs from the shortest suffix up
RECURSIVE ShortestFirst(_, _, _)
ShortestFirst(freq, query, i) ==
    IF i > Min(order, Len(query)) THEN None
    ELSE LET subsequence == Slice(query, Len(query) - i, Len(query))
         IN  IF subsequence \in DOMAIN freq
             THEN Some(freq[subsequence])
             ELSE ShortestFirst(freq, query, i + 1)

best_model_ShortestFirst(freq, query) == ShortestFirst(freq, query, 1)

best_model(freq, query) ==
    SuffixSearch(freq, query, Min(order, Len(query)))

----------------------------------------------------------------------------
(* random_next *)

\* The orders in which a HashMap with the keys S may be iterated.
IterationOrders(S) ==
    {f \in [1..Cardinality(S) -> S] : \A x \in S : \E n \in DOMAIN f : f[n] = x}

\* rng.gen::<f64>() is draw / 2^MantissaBits for a draw of Draws.
Draws == 0..(Pow2(MantissaBits) - 1)

\* bestmodel.values().sum()
RECURSIVE SumLoop(_, _, _, _)
SumLoop(d, iteration, n, acc) ==
    IF n > Len(iteration) THEN acc
    ELSE SumLoop(d, iteration, n + 1, Fl(acc + d[iteration[n]]))

\* r * sum_of_weights
Scale(draw, sum_of_weights) ==
    Fl((draw * sum_of_weights) \div Pow2(MantissaBits))

\* for (k, v) in bestmodel { if randomroll > *v { randomroll -= v } else ... }
RECURSIVE RouletteLoop(_, _, _, _)
RouletteLoop(d, iteration, n, randomroll) ==
    IF n > Len(iteration) THEN None
    ELSE LET k == iteration[n]
             v == d[k]
         IN  IF randomroll > v
             THEN RouletteLoop(d, iteration, n + 1, Fl(randomroll - v))
             ELSE Some(k)

\* `iteration` is the order in which the HashMap found by best_model yields
\* its entries (the same for values() and for the loop: the map is not
\* modified in between), `draw` the random number.
random_next(freq, query, iteration, draw) ==
    LET bestmodel == best_model(freq, query)
    IN  IF bestmodel = None THEN None
        ELSE LET d == bestmodel[1]
                 sum_of_weights == SumLoop(d, iteration, 1, 0)
             IN  RouletteLoop(d, iteration, 1, Scale(draw, sum_of_weights))

----------------------------------------------------------------------------
(* Ghost bookkeeping *)

RECURSIVE SeqToBag(_, _)
SeqToBag(sequences, n) ==
    IF n > Len(sequences) THEN EmptyBag
    ELSE SetToBag({sequences[n]}) (+) SeqToBag(sequences, n + 1)

RECURSIVE SumOver(_, _)
SumOver(B, S) ==
    IF S = {} THEN 0
    ELSE LET x == CHOOSE y \in S : TRUE
         IN  B[x] * Len(x) + SumOver(B, S \ {x})

Calls == BagCardinality(history)
TotalSymbols == SumOver(history, DOMAIN history)

\* The batches of n sequences over the alphabet S with at most room symbols
RECURSIVE BatchesWithin(_, _, _)
BatchesWithin(S, n, room) ==
    IF n = 0 THEN {<<>>}
    ELSE UNION {{<<x>> \o b : b \in BatchesWithin(S, n - 1, room - Len(x))} :
                    x \in SeqsUpTo(S, room)}

\* The keys of the HashMap best_model finds for a query
BestKeys(freq, query) ==
    LET bestmodel == best_model(freq, query)
    IN  IF bestmodel = None THEN {} ELSE DOMAIN bestmodel[1]

----------------------------------------------------------------------------
(* The state machine *)

Call(op, arg, ok, ret) == [op |-> op, arg |-> arg, ok |-> ok, ret |-> ret]

Init ==
    /\ frequencies = EmptyMap           \* HashMap::new()
    /\ known_states = {}                \* HashSet::new()
    /\ history = EmptyBag
    /\ priors = {}
    /\ last = Call("new", <<>>, TRUE, None)

AddSequence(sequence) ==
    LET r == add_sequence(frequencies, known_states, sequence)
    IN  /\ frequencies' = r.frequencies
        /\ known_states' = r.known_states
        /\ history' = history (+) SetToBag({sequence})
        /\ last' = Call("add_sequence", sequence, r.ok, None)
        /\ UNCHANGED priors

AddSequences(sequences) ==
    LET r == add_sequences(frequencies, known_states, sequences)
    IN  /\ frequencies' = r.frequencies
        /\ known_states' = r.known_states
        /\ history' = history (+) SeqToBag(sequences, 1)
        /\ last' = Call("add_sequences", sequences, r.ok, None)
        /\ UNCHANGED priors

AddPriors(prior) ==
    /\ frequencies' = add_priors(frequencies, known_states, prior)
    /\ priors' = priors \cup {prior}
    /\ last' = Call("add_priors", <<prior>>, TRUE, None)
    /\ UNCHANGED <<known_states, history>>

BestModel(query) ==
    /\ last' = Call("best_model", query, TRUE, best_model(frequencies, query))
    /\ UNCHANGED <<frequencies, known_states, history, priors>>

RandomNext(query, iteration, draw) ==
    /\ last' = Call("random_next", <<query, iteration, draw>>, TRUE,
                    random_next(frequencies, query, iteration, draw))
    /\ UNCHANGED <<frequencies, known_states, history, priors>>

\* Training on sequences over the alphabet S, within a budget of calls and
\* of symbols
Train(S, maxCalls, maxSymbols) ==
    \/ /\ Calls < maxCalls
       /\ \E sequence \in SeqsUpTo(S, maxSymbols - TotalSymbols) :
              AddSequence(sequence)
    \/ \E n \in 0..maxCalls :
          /\ Calls + n <= maxCalls
          /\ \E sequences \in BatchesWithin(S, n, maxSymbols - TotalSymbols) :
                 AddSequences(sequences)

\* The documentation tests train a fresh model on one batch
DocTrain ==
    /\ history = EmptyBag
    /\ \E sequences \in DocBatches : AddSequences(sequences)

Smooth == \E prior \in Priors : AddPriors(prior)

Next ==
    \/ Train(Symbols, MaxCalls, MaxSymbols)
    \/ Smooth

Spec == Init /\ [][Next]_vars

Queries == SeqsUpTo(Symbols, MaxQueryLen) \cup DocQueries

QueryNext ==
    \/ Train(Symbols, MaxQueryCalls, MaxQuerySymbols)
    \/ DocTrain
    \/ Smooth
    \/ \E query \in Queries : BestModel(query)

QuerySpec == Init /\ [][QueryNext]_vars

SampleQueries == SeqsUpTo(SampleSymbols, MaxSampleQueryLen)

SampleNext ==
    \/ Train(SampleSymbols, MaxSampleCalls, MaxSampleSymbols)
    \/ Smooth
    \/ \E query \in SampleQueries : BestModel(query)
    \/ \E query \in SampleQueries :
          \E iteration \in IterationOrders(BestKeys(frequencies, query)) :
             \E draw \in Draws : RandomNext(query, iteration, draw)

SampleSpec == Init /\ [][SampleNext]_vars

----------------------------------------------------------------------------
(* Training: C1, C2, C3, C9 *)

Suffix(sequence, n) == SubSeq(sequence, Len(sequence) - n + 1, Len(sequence))

Contexts(S) == UNION {SeqsOfLen(S, k) : k \in 1..order}

\* The positions i >= |C| of x with x[i-|C|..i] = C and x[i] = s (0-based)
Positions(x, C, s) ==
    {i \in Len(C)..(Len(x) - 1) : Slice(x, i - Len(C), i) = C /\ At(x, i) = s}

\* Their number over the sequences of S, each counted as often as the bag B
\* holds it
RECURSIVE Occurrences(_, _, _, _)
Occurrences(B, S, C, s) ==
    IF S = {} THEN 0
    ELSE LET x == CHOOSE y \in S : TRUE
         IN  B[x] * Cardinality(Positions(x, C, s))
                 + Occurrences(B, S \ {x}, C, s)

HasEntry(freq, C, s) == C \in DOMAIN freq /\ s \in DOMAIN freq[C]

\* C1: as long as add_priors has not been called, the weight stored for a
\* symbol s under a context C of length 1..order is the number of places of
\* the trained sequences where s follows C, and the entry exists only if that
\* number is at least 1; so the table is a function of the bag of trained
\* sequences alone, whatever the order of the calls.
C1_AdditiveCount ==
    priors = {} =>
        \A C \in Contexts(Symbols) : \A s \in Symbols :
            LET n == Occurrences(history, DOMAIN history, C, s)
            IN  /\ HasEntry(frequencies, C, s) <=> n >= 1
                /\ n >= 1 => frequencies[C][s] = n * One

\* Two different sequences hold the transition a -> b once each, and its
\* weight is 2.0
C1_Witness ==
    /\ priors = {}
    /\ \E x, y \in DOMAIN history :
          /\ x # y
          /\ Cardinality(Positions(x, <<"a">>, "b")) = 1
          /\ Cardinality(Positions(y, <<"a">>, "b")) = 1
    /\ HasEntry(frequencies, <<"a">>, "b")
    /\ frequencies[<<"a">>]["b"] = 2 * One

\* C2: add_sequence with a sequence of length 0 or 1 returns the error and
\* leaves frequencies and known_states as they were.
C2_ShortRejected ==
    [][(last'.op = "add_sequence" /\ Len(last'.arg) < 2) =>
          /\ ~last'.ok
          /\ frequencies' = frequencies
          /\ known_states' = known_states]_vars

\* A trained model has refused a sequence of one symbol it does not know
C2_Witness ==
    /\ last.op = "add_sequence"
    /\ Len(last.arg) = 1
    /\ ~last.ok
    /\ frequencies # EmptyMap
    /\ last.arg[1] \notin known_states

\* What add_sequence makes of (freq, known), applied to the sequences of
\* length >= 2 among sequences[n..], in their order
RECURSIVE TrainAccepted(_, _, _, _)
TrainAccepted(freq, known, sequences, n) ==
    IF n > Len(sequences) THEN <<freq, known>>
    ELSE IF Len(sequences[n]) < 2
         THEN TrainAccepted(freq, known, sequences, n + 1)
         ELSE LET r == add_sequence(freq, known, sequences[n])
              IN  TrainAccepted(r.frequencies, r.known_states, sequences, n + 1)

\* C3: add_sequences fails exactly on the empty batch, leaving the model as
\* it was; on any other batch it returns Ok and the model is the one that
\* add_sequence on each sequence of length >= 2 of the batch gives.
C3_BatchSkipsShort ==
    [][last'.op = "add_sequences" =>
          /\ ~last'.ok <=> Len(last'.arg) = 0
          /\ <<frequencies', known_states'>> =
                 TrainAccepted(frequencies, known_states, last'.arg, 1)]_vars

\* A batch whose first sequence is too short and whose second is trained
C3_Witness ==
    /\ last.op = "add_sequences"
    /\ last.ok
    /\ Len(last.arg) = 2
    /\ Len(last.arg[1]) < 2
    /\ Len(last.arg[2]) >= 2
    /\ HasEntry(frequencies, <<last.arg[2][1]>>, last.arg[2][2])

\* C9: every Context key has a length between 1 and order.
C9_ContextLength ==
    \A C \in DOMAIN frequencies : 1 <= Len(C) /\ Len(C) <= order

\* A sequence with more than order symbols before its last one was trained,
\* and there is a key of length order
C9_Witness ==
    /\ \E x \in DOMAIN history : Len(x) > order + 1
    /\ \E C \in DOMAIN frequencies : Len(C) = order

----------------------------------------------------------------------------
(* Smoothing: C4, C6 *)

\* C4: add_priors leaves the Context keys, known_states and every weight
\* there was as they were, gives every (Context, known Symbol) pair without
\* an entry the weight prior, and so leaves every Context with an entry for
\* every known Symbol; a second add_priors right after it changes nothing.
C4_PriorsFillGaps ==
    [][last'.op = "add_priors" =>
          /\ DOMAIN frequencies' = DOMAIN frequencies
          /\ known_states' = known_states
          /\ \A C \in DOMAIN frequencies :
                /\ DOMAIN frequencies'[C] = DOMAIN frequencies[C] \cup known_states
                /\ \A s \in DOMAIN frequencies'[C] :
                      frequencies'[C][s] =
                          IF s \in DOMAIN frequencies[C]
                          THEN frequencies[C][s] ELSE last'.arg[1]
          /\ last.op = "add_priors" => frequencies' = frequencies]_vars

\* After two add_priors calls with different priors, the second of them the
\* last call, the table holds an observed weight and a weight that is the
\* prior of the first call
C4_Witness ==
    /\ last.op = "add_priors"
    /\ Cardinality(priors) = 2
    /\ \E C \in DOMAIN frequencies : \E s, t \in DOMAIN frequencies[C] :
          /\ frequencies[C][s] >= One
          /\ frequencies[C][t] \in priors \ {last.arg[1]}

\* C6, as claimed: right after add_priors(prior), for any prior >= 0, every
\* Context has a strictly positive weight for every known Symbol.
C6_PositiveAfterPriors ==
    last.op = "add_priors" =>
        \A C \in DOMAIN frequencies : \A s \in known_states :
            HasEntry(frequencies, C, s) /\ frequencies[C][s] > 0

\* C6, amended: right after add_priors every Context has a weight for every
\* known Symbol, and the weight is strictly positive unless 0.0 was the
\* prior of this or of an earlier add_priors call.
C6_PositiveUnlessZeroPrior ==
    last.op = "add_priors" =>
        \A C \in DOMAIN frequencies : \A s \in known_states :
            /\ HasEntry(frequencies, C, s)
            /\ 0 \notin priors => frequencies[C][s] > 0

\* add_priors with a positive prior has filled an entry
C6_Witness ==
    /\ last.op = "add_priors"
    /\ 0 \notin priors
    /\ \E C \in DOMAIN frequencies : \E s \in known_states :
          HasEntry(frequencies, C, s) /\ frequencies[C][s] = last.arg[1]

----------------------------------------------------------------------------
(* Lookup: C5 *)

MaxOf(S) == CHOOSE n \in S : \A k \in S : k <= n

\* The lengths 1..min(order, |query|) of the suffixes of query that are keys
KeyedSuffixes(freq, query) ==
    {n \in 1..Min(order, Len(query)) : Suffix(query, n) \in DOMAIN freq}

\* C5: best_model returns the Distribution of the longest suffix of the
\* query, of a length of 1..min(order, |query|), that is a key, and absence
\* exactly when there is none; after the training of its documentation test
\* the result for ['b','a'] holds 'r' and does not hold 'c'.
C5_LongestSuffix ==
    last.op = "best_model" =>
        LET query == last.arg
            keyed == KeyedSuffixes(frequencies, query)
        IN  /\ last.ret = None <=> keyed = {}
            /\ keyed # {} =>
                  last.ret = Some(frequencies[Suffix(query, MaxOf(keyed))])
            /\ ( /\ history = SeqToBag(BestModelDoc, 1)
                 /\ priors = {}
                 /\ query = <<"b", "a">> ) =>
                    /\ last.ret # None
                    /\ "r" \in DOMAIN last.ret[1]
                    /\ "c" \notin DOMAIN last.ret[1]

\* The documentation test: ['b','a'] is looked up after its training, while
\* the shorter suffix ['a'] is a key too and holds 'c'
C5_Witness ==
    /\ last.op = "best_model"
    /\ last.arg = <<"b", "a">>
    /\ history = SeqToBag(BestModelDoc, 1)
    /\ priors = {}
    /\ last.ret = Some(frequencies[<<"b", "a">>])
    /\ HasEntry(frequencies, <<"a">>, "c")

----------------------------------------------------------------------------
(* Sampling: C7, C8, C10 *)

\* C7: random_next returns absence exactly when best_model does, and a key
\* of the Distribution best_model finds otherwise: the end of the roulette
\* walk is never reached.
C7_NeverFallsThrough ==
    last.op = "random_next" =>
        LET bestmodel == best_model(frequencies, last.arg[1])
        IN  /\ last.ret = None <=> bestmodel = None
            /\ bestmodel # None =>
                  last.ret # None /\ last.ret[1] \in DOMAIN bestmodel[1]

\* The sum of the weights of the first n entries, without rounding
RECURSIVE PrefixSum(_, _, _)
PrefixSum(d, iteration, n) ==
    IF n = 0 THEN 0 ELSE PrefixSum(d, iteration, n - 1) + d[iteration[n]]

\* C8: with the entries e_1..e_n in iteration order and the scaled draw r,
\* e_j is returned exactly when w_1+..+w_(j-1) < r <= w_1+..+w_j, and e_1
\* when r = 0.
C8_RouletteIntervals ==
    (last.op = "random_next" /\ best_model(frequencies, last.arg[1]) # None) =>
        LET d == best_model(frequencies, last.arg[1])[1]
            iteration == last.arg[2]
            r == Scale(last.arg[3], SumLoop(d, iteration, 1, 0))
        IN  \A j \in 1..Len(iteration) :
                last.ret = Some(iteration[j]) <=>
                    \/ /\ PrefixSum(d, iteration, j - 1) < r
                       /\ r <= PrefixSum(d, iteration, j)
                    \/ j = 1 /\ r = 0

\* The symbols at a non-final position of a trained sequence
NonFinal(B) ==
    UNION {{x[n] : n \in 1..(Len(x) - 1)} : x \in {y \in DOMAIN B : Len(y) >= 2}}

SuffixClosed(freq) ==
    \A C \in DOMAIN freq : \A n \in 1..Len(C) : Suffix(C, n) \in DOMAIN freq

\* The part of C10 that is about the table and best_model: the keys are
\* suffix-closed, the keys of length 1 are the symbols seen at a non-final
\* position, before and after add_priors, add_priors gives every Context an
\* entry for every known Symbol, and best_model returns a result for a
\* non-empty query exactly when its last symbol is one of them.
C10_BestModelIffNonFinal ==
    /\ SuffixClosed(frequencies)
    /\ \A s \in known_states : <<s>> \in DOMAIN frequencies <=> s \in NonFinal(history)
    /\ last.op = "add_priors" =>
          \A C \in DOMAIN frequencies : known_states \subseteq DOMAIN frequencies[C]
    /\ (last.op = "best_model" /\ last.arg # <<>>) =>
          (last.ret # None <=> last.arg[Len(last.arg)] \in NonFinal(history))

\* C10: the above, and random_next as well returns a result for a non-empty
\* query exactly when its last symbol was seen at a non-final position.
C10_ResultIffNonFinal ==
    /\ C10_BestModelIffNonFinal
    /\ (last.op = "random_next" /\ last.arg[1] # <<>>) =>
          (last.ret # None <=>
              last.arg[1][Len(last.arg[1])] \in NonFinal(history))

====
